---- MODULE Spec2Model ----
(***************************************************************************)
(* The tool-calling orchestration loop of the Canvas assistant:            *)
(* CanvasAgent.process_message / _handle_tool_calls (agent.py), the        *)
(* language-model gateway OpenAIClient (openai_client.py) and the console  *)
(* loop main_loop (main.py).                                               *)
(*                                                                         *)
(* A text (message content, model reply, error string) is a sequence of    *)
(* string tokens, so that "the text contains the tool name" is a test on   *)
(* its tokens.  None is the empty text.                                    *)
(***************************************************************************)
EXTENDS Integers, Sequences, FiniteSets, TLC

VARIABLES
    context,        \* CanvasAgent.context: the conversation history
    system_prompt,  \* CanvasAgent.system_prompt
    env,            \* config.py: the required environment variables that are set
    constructed,    \* main_loop: the CanvasAgent has been constructed
    exit_code,      \* the exit status of the process once it has ended
    loopPc,         \* main / main_loop: "start", "validate", "construct", "input" (at
                    \* input()), "await" (awaiting process_message), "exited" (after
                    \* exit or quit), "interrupted", "fatal" (sys.exit)
    line,           \* main_loop: user_input, the line read last
    pc,             \* process_message: "Idle", "AwaitingModel", "DispatchingTools", "AwaitingFinalModel"
    active,         \* number of process_message calls that have started and not returned
    msgCount,       \* number of user messages forwarded to the agent so far
    tool_calls,     \* _handle_tool_calls: the invocations of the cycle, in gateway order
    idx,            \* _handle_tool_calls: position of the for loop (next invocation)
    function_name,  \* _handle_tool_calls: the loop variable function_name
    results,        \* _handle_tool_calls: results
    errors,         \* _handle_tool_calls: errors
    large_response, \* _handle_tool_calls: large_response
    outcomes,       \* per invocation attempted in this cycle: what happened to it
    sizes,          \* per invocation attempted in this cycle: items the adapter returned
    before,         \* length of context when the cycle's user message arrived
    base,           \* length of context right after the cycle's user turn was stored
    lastCall,       \* the most recent gateway call: operation, system prompt, messages
    calls,          \* gateway calls of this cycle: [with_tools, respond] counters
    reply,          \* the text the most recent gateway call returned
    providerError,  \* str(e) if the provider call of that gateway call failed
    returned,       \* what the last finished process_message call returned
    backend,        \* CanvasClient: the assignments the LMS holds for the course
    courses,        \* CanvasClient: the courses the LMS holds, each with its assignments
    now,            \* CanvasClient: datetime.datetime.now()
    op,             \* CanvasClient / result shaping: the operation applied last
    out,            \* its outcome
    reported        \* main_loop: str(e) of the exception its handler printed last

vars == <<context, system_prompt, loopPc, line, pc, active, msgCount, tool_calls, idx,
          function_name, results, errors, large_response, outcomes, sizes, before, base,
          lastCall, calls, reply, providerError, returned, backend, courses, now, op,
          out, env, constructed, exit_code, reported>>

(***************************************************************************)
(* Bounds of the model and constants of the program.                       *)
(***************************************************************************)
\* Spec: user messages per session, invocations per gateway response.
MaxMsgs == 1
MaxCalls == 2
\* SpecSession: user messages per session (one invocation per response).
MaxSessionMsgs == 6
\* SpecClient: assignments per course drawn from every combination of fields, and
\* the length of the longest course list.
MaxAssignments == 2
MaxListLen == 20
\* SpecSummary: courses the LMS holds.
MaxCourses == 2

MAX_CONTEXT_LENGTH == 10

DEFAULT_SYSTEM_PROMPT == <<"You are CanvasAssist">>

TerseInstruction == <<"Give very concise responses">>

(***************************************************************************)
(* Texts.                                                                  *)
(***************************************************************************)
None == <<>>

\* What the provider may answer to generate_with_tools / generate_response.
ModelTexts == {<<"answer">>}
FinalTexts == {<<"final answer">>}
\* str(e) of a provider failure.
ProviderErrors == {"provider error"}
\* The provider call succeeded.
NoError == "none"

\* An apology that leaves the error detail out.
ApologyWithoutDetail(e) == <<"I'm sorry, I encountered an error">>

\* openai_client.py: the text both except-handlers return.
Apology(e) == <<"I'm sorry, I encountered an error", e>>

\* agent.py line 243: the text used when _handle_tool_calls raises.
ToolFallback(e) == <<"I tried to retrieve information from Canvas, but encountered an error", e>>

\* agent.py line 370: error_msg.
ErrorMsg(name, e) == <<"Error executing", name, e>>

RECURSIVE Join(_)
\* agent.py line 382: "\n".join(errors)
Join(es) == IF es = <<>> THEN <<>> ELSE Head(es) \o Join(Tail(es))

ErrorContent(es) == <<"Errors encountered:">> \o Join(es)

(***************************************************************************)
(* Turns of the conversation history.                                      *)
(***************************************************************************)
NoName == "-"

UserTurn(message) == [role |-> "user", name |-> NoName, content |-> message]

AssistantTurn(text) == [role |-> "assistant", name |-> NoName, content |-> text]

FunctionTurn(name, text) == [role |-> "function", name |-> name, content |-> text]

\* A truncation that keeps the oldest turns instead of the newest.
TruncateKeepOldest(h) ==
    IF Len(h) > MAX_CONTEXT_LENGTH THEN SubSeq(h, 1, MAX_CONTEXT_LENGTH) ELSE h

\* agent.py lines 218-219.
Truncate(h) ==
    IF Len(h) > MAX_CONTEXT_LENGTH
    THEN SubSeq(h, Len(h) - MAX_CONTEXT_LENGTH + 1, Len(h))
    ELSE h

(***************************************************************************)
(* The tool registry: the catalog advertised to the gateway and the        *)
(* branches of the dispatcher.                                             *)
(***************************************************************************)
\* agent.py lines 43-201: the names in self.tools, in order.
Catalog ==
    <<"get_courses", "get_course_details", "get_assignments", "get_assignment_summary",
      "get_upcoming_assignments", "get_late_assignments", "get_assignment_details",
      "find_assignment", "get_user_profile">>

\* A chain without the get_courses branch.
DispatchTableWithoutCourses ==
    {"get_course_details", "get_assignments", "get_assignment_summary",
     "get_upcoming_assignments", "get_late_assignments", "get_assignment_details",
     "find_assignment", "get_user_profile"}

\* agent.py lines 279-366: the names the if/elif chain has a branch for.
DispatchTable ==
    {"get_courses", "get_course_details", "get_assignments", "get_assignment_summary",
     "get_upcoming_assignments", "get_late_assignments", "get_assignment_details",
     "find_assignment", "get_user_profile"}

\* agent.py lines 288-368: the label each branch puts in front of the rendered data.
Label(name) ==
    CASE name = "get_courses" -> "Courses"
      [] name = "get_course_details" -> "Course Details"
      [] name = "get_assignments" -> "Assignments"
      [] name = "get_assignment_summary" -> "Assignment Summary"
      [] name = "get_upcoming_assignments" -> "Upcoming Assignments"
      [] name = "get_late_assignments" -> "Late Assignments"
      [] name = "get_assignment_details" -> "Assignment Details"
      [] name = "find_assignment" -> "Found Assignment"
      [] name = "get_user_profile" -> "User Profile"

\* The text a successful branch appends to results.
Render(name) == <<Label(name)>>

\* A mark set from 10 items on.
MarksLargeAtTen(name, size) == name = "get_assignments" /\ size >= 10

\* agent.py lines 299-301: only the get_assignments branch marks a large response.
MarksLarge(name, size) == name = "get_assignments" /\ size > 10

(***************************************************************************)
(* Inputs.                                                                 *)
(***************************************************************************)
\* json.loads(tool_call.function.arguments) succeeds on "{}" and raises on "{".
WellFormed(arguments) == arguments = "{}"

JsonError == "Expecting property name enclosed in double quotes"

Invocation(name, arguments) == [name |-> name, arguments |-> arguments]

\* The tool names and argument strings the model draws invocations from.
ToolNames == {"get_courses", "get_assignments"}
ArgumentStrings == {"{}", "{"}

Invocations == {Invocation(n, a) : n \in ToolNames, a \in ArgumentStrings}

RECURSIVE SeqsUpTo(_, _)
SeqsUpTo(S, n) ==
    IF n = 0 THEN {<<>>}
    ELSE LET shorter == SeqsUpTo(S, n - 1)
         IN  shorter \cup {Append(s, x) : s \in {t \in shorter : Len(t) = n - 1}, x \in S}

ToolCallLists == SeqsUpTo(Invocations, MaxCalls) \ {<<>>}

SessionToolCallLists ==
    {<<Invocation("get_assignments", "{}")>>, <<Invocation("get_courses", "{")>>}

\* What an adapter operation does: return a list of so many items, or raise.
AdapterReturns == {[kind |-> "ok", size |-> 10], [kind |-> "ok", size |-> 11]}
AdapterRaises == {[kind |-> "fail", error |-> "Canvas API error"]}
AdapterOutcomes == AdapterReturns \cup AdapterRaises

SessionAdapterOutcomes ==
    {[kind |-> "ok", size |-> 11], [kind |-> "fail", error |-> "Canvas API error"]}

\* A line typed at the console that is no command: the n-th user message.
Message(n) == "Msg " \o ToString(n)

\* The command lines the model types, in several spellings.
ConsoleCommands == {"exit", "QUIT", "Reset", "help"}

\* A comparison that is case-sensitive.
LowerIdentity(text) == text

\* str.lower() on the lines the model types.
Lower(text) ==
    CASE text \in {"exit", "EXIT", "Exit"} -> "exit"
      [] text \in {"quit", "QUIT", "Quit"} -> "quit"
      [] text \in {"reset", "RESET", "Reset"} -> "reset"
      [] text \in {"help", "HELP", "Help"} -> "help"
      [] OTHER -> IF \E n \in 1..(msgCount + 1) : text = Message(n)
                  THEN "msg " \o ToString(CHOOSE n \in 1..(msgCount + 1) : text = Message(n))
                  ELSE text

(***************************************************************************)
(* Initial state: CanvasAgent.__init__ has run, main_loop is at input().   *)
(***************************************************************************)
NoCall == [op |-> "none", system_prompt |-> None, messages |-> <<>>, tools |-> <<>>,
           previous |-> None]

\* No adapter operation has been applied.
NoOp == [name |-> "none", days |-> 0]
NoOutcome == [kind |-> "none"]

SessionInit ==
    /\ context = <<>>
    /\ system_prompt = DEFAULT_SYSTEM_PROMPT
    /\ line = ""
    /\ pc = "Idle"
    /\ active = 0
    /\ msgCount = 0
    /\ tool_calls = <<>>
    /\ idx = 0
    /\ function_name = NoName
    /\ results = <<>>
    /\ errors = <<>>
    /\ large_response = FALSE
    /\ outcomes = <<>>
    /\ sizes = <<>>
    /\ before = 0
    /\ base = 0
    /\ lastCall = NoCall
    /\ calls = [with_tools |-> 0, respond |-> 0]
    /\ reply = None
    /\ providerError = NoError
    /\ returned = None

\* main_loop is at input() for the first time.
AgentInit == SessionInit /\ loopPc = "input"

\* main.py lines 43-47: the environment variables validate_environment requires.
RequiredVars == {"OPENAI_API_KEY", "CANVAS_ACCESS_TOKEN"}

\* The process is running: it has no exit status yet.
NoExit == -1

\* The loop's handler has printed nothing.
NoReport == "none"

\* No adapter operation is under study.
ClientIdle ==
    /\ backend = <<>>
    /\ courses = <<>>
    /\ now = 0
    /\ op = NoOp
    /\ out = NoOutcome

\* The state when main_loop reaches input() for the first time: the environment is
\* complete and the agent constructed.
Init ==
    /\ AgentInit
    /\ ClientIdle
    /\ env = RequiredVars
    /\ constructed = TRUE
    /\ exit_code = NoExit
    /\ reported = NoReport

cycleVars ==
    <<tool_calls, idx, function_name, results, errors, large_response, outcomes, sizes>>

callVars == <<before, base, lastCall, calls, reply, providerError>>

clientVars == <<backend, courses, now, op, out>>

inputVars == <<backend, courses, now>>

processVars == <<env, constructed, exit_code, reported>>

agentVars ==
    <<context, system_prompt, loopPc, line, pc, active, msgCount, cycleVars, callVars,
      returned, processVars>>

(***************************************************************************)
(* main_loop (main.py lines 77-105).                                       *)
(***************************************************************************)
\* A loop that starts process_message without awaiting it.
CanReadWithoutAwait == loopPc \in {"input", "await"}

\* The loop reads the next line only when it is at input(): process_message is awaited.
CanRead == loopPc = "input"

\* exit / quit: the loop ends.
Exit(text) ==
    /\ CanRead
    /\ Lower(text) \in {"exit", "quit"}
    /\ line' = text
    /\ loopPc' = "exited"
    /\ exit_code' = 0
    /\ UNCHANGED <<context, system_prompt, pc, active, msgCount, cycleVars, callVars,
                   returned, clientVars, env, constructed,
                   reported>>

\* A reset that keeps the last turn.
ResetKeepsLastTurn(h) == IF h = <<>> THEN <<>> ELSE <<h[Len(h)]>>

\* agent.py line 403: self.context = [].
ResetContext(h) == <<>>

\* reset: CanvasAgent.reset_context.
Reset(text) ==
    /\ CanRead
    /\ Lower(text) = "reset"
    /\ line' = text
    /\ context' = ResetContext(context)
    /\ UNCHANGED <<system_prompt, loopPc, pc, active, msgCount, cycleVars, callVars,
                   returned, clientVars,
                   processVars>>

\* help: the banner is printed again.
Help(text) ==
    /\ CanRead
    /\ Lower(text) = "help"
    /\ line' = text
    /\ UNCHANGED <<context, system_prompt, loopPc, pc, active, msgCount, cycleVars,
                   callVars, returned, clientVars,
                   processVars>>

\* A process_message that cuts the history before it stores the user turn.
ForwardTruncatesFirst(text) ==
    /\ CanRead
    /\ Lower(text) \notin {"exit", "quit", "reset", "help"}
    /\ line' = text
    /\ loopPc' = "await"
    /\ active' = active + 1
    /\ msgCount' = msgCount + 1
    /\ before' = Len(context)
    /\ context' = Append(Truncate(context), UserTurn(<<text>>))
    /\ base' = Len(context')
    /\ pc' = "AwaitingModel"
    /\ lastCall' = [op |-> "generate_with_tools", system_prompt |-> system_prompt,
                    messages |-> context', tools |-> Catalog,
                    previous |-> lastCall.system_prompt]
    /\ calls' = [with_tools |-> 1, respond |-> 0]
    /\ tool_calls' = <<>>
    /\ idx' = 0
    /\ function_name' = NoName
    /\ results' = <<>>
    /\ errors' = <<>>
    /\ large_response' = FALSE
    /\ outcomes' = <<>>
    /\ sizes' = <<>>
    /\ UNCHANGED <<system_prompt, reply, providerError, returned, clientVars,
                   processVars>>

\* Any other line: process_message(line) starts (agent.py lines 213-229): the user
\* turn is stored, the history truncated, and generate_with_tools is called.
Forward(text) ==
    /\ CanRead
    /\ Lower(text) \notin {"exit", "quit", "reset", "help"}
    /\ line' = text
    /\ loopPc' = "await"
    /\ active' = active + 1
    /\ msgCount' = msgCount + 1
    /\ before' = Len(context)
    /\ context' = Truncate(Append(context, UserTurn(<<text>>)))
    /\ base' = Len(context')
    /\ pc' = "AwaitingModel"
    /\ lastCall' = [op |-> "generate_with_tools", system_prompt |-> system_prompt,
                    messages |-> context', tools |-> Catalog,
                    previous |-> lastCall.system_prompt]
    /\ calls' = [with_tools |-> 1, respond |-> 0]
    /\ tool_calls' = <<>>
    /\ idx' = 0
    /\ function_name' = NoName
    /\ results' = <<>>
    /\ errors' = <<>>
    /\ large_response' = FALSE
    /\ outcomes' = <<>>
    /\ sizes' = <<>>
    /\ UNCHANGED <<system_prompt, reply, providerError, returned, clientVars,
                   processVars>>

\* Line 80: the lines input() may return now: a command or the next user message.
ConsoleLines == ConsoleCommands \cup {Message(msgCount + 1)}

ReadLine(limit) ==
    \E text \in ConsoleLines :
        \/ Exit(text)
        \/ Reset(text)
        \/ Help(text)
        \/ msgCount < limit /\ Forward(text)

(***************************************************************************)
(* process_message (agent.py lines 231-251).                               *)
(***************************************************************************)
\* A return that forgets to store the assistant turn.
FinishWithoutAppend(result) ==
    /\ context' = context
    /\ returned' = result
    /\ pc' = "Idle"
    /\ active' = active - 1
    /\ loopPc' = "input"

\* Lines 245-248: the assistant turn is stored and the text returned to main_loop,
\* which prints it and goes back to input().
Finish(result) ==
    /\ context' = Append(context, AssistantTurn(result))
    /\ returned' = result
    /\ pc' = "Idle"
    /\ active' = active - 1
    /\ loopPc' = "input"

\* openai_client.py lines 123-126 and 128-135: what generate_with_tools returns.
WithToolsResponses(lists) ==
    {[content |-> t, tool_calls |-> <<>>] : t \in ModelTexts}
    \cup {[content |-> None, tool_calls |-> l] : l \in lists}

\* An except-handler that returns no text.
WithToolsFailureNoText(e) == [content |-> None, tool_calls |-> <<>>]

WithToolsFailure(e) == [content |-> Apology(e), tool_calls |-> <<>>]

\* Lines 232-233 with no tool calls: the content is the result.
ModelAnswers(response, e) ==
    /\ pc = "AwaitingModel"
    /\ response.tool_calls = <<>>
    /\ reply' = response.content
    /\ providerError' = e
    /\ Finish(response.content)
    /\ UNCHANGED <<system_prompt, line, msgCount, cycleVars, before, base, lastCall, calls,
                   clientVars,
                   processVars>>

\* Lines 233-237 with tool calls: _handle_tool_calls starts (lines 263-267).
ModelRequestsTools(response) ==
    /\ pc = "AwaitingModel"
    /\ response.tool_calls # <<>>
    /\ pc' = "DispatchingTools"
    /\ tool_calls' = response.tool_calls
    /\ idx' = 1
    /\ results' = <<>>
    /\ errors' = <<>>
    /\ large_response' = FALSE
    /\ reply' = response.content
    /\ providerError' = NoError
    /\ UNCHANGED <<context, system_prompt, loopPc, line, active, msgCount, function_name,
                   outcomes, sizes, before, base, lastCall, calls, returned, clientVars,
                   processVars>>

GenerateWithToolsReturns(lists) ==
    \/ \E response \in WithToolsResponses(lists) :
          ModelAnswers(response, NoError) \/ ModelRequestsTools(response)
    \/ \E e \in ProviderErrors : ModelAnswers(WithToolsFailure(e), e)

(***************************************************************************)
(* _handle_tool_calls (agent.py lines 269-397).                            *)
(***************************************************************************)
\* An exception of _handle_tool_calls reported with the apology of the gateway.
HandleToolCallsRaisedAsApology(e) == Apology(e)

\* Lines 238-243: an exception leaving _handle_tool_calls becomes the result.
HandleToolCallsRaised(e) == ToolFallback(e)

\* One iteration of the for loop whose arguments do not decode: json.loads (line
\* 271) raises outside the try of line 277, so _handle_tool_calls is left.
DecodeFails ==
    /\ pc = "DispatchingTools"
    /\ idx <= Len(tool_calls)
    /\ ~WellFormed(tool_calls[idx].arguments)
    /\ function_name' = tool_calls[idx].name
    /\ outcomes' = Append(outcomes, "decode_error")
    /\ sizes' = Append(sizes, 0)
    /\ Finish(HandleToolCallsRaised(JsonError))
    /\ UNCHANGED <<system_prompt, line, msgCount, tool_calls, idx, results, errors,
                   large_response, callVars, clientVars,
                   processVars>>

\* One iteration of the for loop with decodable arguments (lines 270-374).
Dispatch(adapter) ==
    /\ pc = "DispatchingTools"
    /\ idx <= Len(tool_calls)
    /\ WellFormed(tool_calls[idx].arguments)
    /\ LET name == tool_calls[idx].name
       IN  /\ function_name' = name
           /\ IF name \notin DispatchTable
              THEN \* no branch of the if/elif chain matches
                   /\ outcomes' = Append(outcomes, "no_branch")
                   /\ sizes' = Append(sizes, 0)
                   /\ UNCHANGED <<results, errors, large_response>>
              ELSE \E outcome \in adapter :
                     /\ outcomes' = Append(outcomes, outcome.kind)
                     /\ IF outcome.kind = "ok"
                        THEN /\ sizes' = Append(sizes, outcome.size)
                             /\ results' = Append(results, Render(name))
                             /\ large_response' =
                                   (large_response \/ MarksLarge(name, outcome.size))
                             /\ UNCHANGED errors
                        ELSE /\ sizes' = Append(sizes, 0)
                             /\ errors' = Append(errors, ErrorMsg(name, outcome.error))
                             /\ UNCHANGED <<results, large_response>>
    /\ idx' = idx + 1
    /\ UNCHANGED <<context, system_prompt, loopPc, line, pc, active, msgCount, tool_calls,
                   callVars, returned, clientVars,
                   processVars>>

\* A loop that never ends.
LoopNeverDone == FALSE

\* A loop left after its first iteration.
LoopDoneEarly == idx > 1

\* Line 269: the for loop has gone through every invocation.
LoopDone == idx > Len(tool_calls)

\* Result turns stored newest first.
ResultTurnsReversed(rs, last_name) ==
    [i \in 1..Len(rs) |-> FunctionTurn(last_name, rs[Len(rs) + 1 - i])]

\* Line 378: every result turn is named by function_name as the loop left it.
ResultTurns(rs, last_name) == [i \in 1..Len(rs) |-> FunctionTurn(last_name, rs[i])]

\* One error-report turn per failure instead of one for all.
ErrorTurnsPerError(es) ==
    [i \in 1..Len(es) |-> FunctionTurn("error_report", ErrorContent(<<es[i]>>))]

\* Lines 381-383.
ErrorTurns(es) ==
    IF es # <<>> THEN <<FunctionTurn("error_report", ErrorContent(es))>> ELSE <<>>

\* Lines 387-389.
TargetPrompt(stored, large) == IF large THEN stored \o TerseInstruction ELSE stored

\* A cycle that writes the augmented prompt back to self.system_prompt.
StoredPromptOverwritten(stored, large) == TargetPrompt(stored, large)

\* Lines 387-389: target_system_prompt is a local; self.system_prompt is not assigned.
StoredPromptAfter(stored, large) == stored

\* Lines 376-395: after the loop the turns are stored and generate_response is called.
Aggregate ==
    /\ pc = "DispatchingTools"
    /\ LoopDone
    /\ context' = context \o ResultTurns(results, function_name) \o ErrorTurns(errors)
    /\ lastCall' = [op |-> "generate_response",
                    system_prompt |-> TargetPrompt(system_prompt, large_response),
                    messages |-> context', tools |-> <<>>,
                    previous |-> lastCall.system_prompt]
    /\ system_prompt' = StoredPromptAfter(system_prompt, large_response)
    /\ calls' = [calls EXCEPT !.respond = @ + 1]
    /\ pc' = "AwaitingFinalModel"
    /\ UNCHANGED <<loopPc, line, active, msgCount, cycleVars, before, base,
                   reply, providerError, returned, clientVars,
                   processVars>>

\* openai_client.py lines 68-73 and 75-80: what generate_response returns.
RespondOutcomes ==
    {[text |-> t, error |-> NoError] : t \in FinalTexts}
    \cup {[text |-> Apology(e), error |-> e] : e \in ProviderErrors}

RespondResults == {o.text : o \in RespondOutcomes}

\* A result that wraps the final text.
HandleToolCallsResultWrapped(final_response) == <<"Here is what I found">> \o final_response

\* Line 397: return final_response.
HandleToolCallsResult(final_response) == final_response

\* Lines 392-397 and 237-248: the text generate_response returns is the result of
\* _handle_tool_calls and of process_message.
GenerateResponseReturns ==
    /\ pc = "AwaitingFinalModel"
    /\ \E o \in RespondOutcomes :
          /\ reply' = o.text
          /\ providerError' = o.error
          /\ Finish(HandleToolCallsResult(o.text))
    /\ UNCHANGED <<system_prompt, line, msgCount, cycleVars, before, base, lastCall, calls,
                   clientVars,
                   processVars>>

(***************************************************************************)
(* The LMS adapter's assignment operations and the shaping of their        *)
(* results, as functions of the course's assignment list and the clock.    *)
(***************************************************************************)
Min(a, b) == IF a < b THEN a ELSE b

\* Time is counted in whole days.
DueTimes == 1..4
Clock == {2, 3}
HorizonDays == {0, 1, 2}

\* The due_at of an assignment as the LMS sends it: null, a string that is no ISO
\* date, an ISO date with a 'Z' or offset suffix, an ISO date without one.
DueAts ==
    {[kind |-> "missing", at |-> 0], [kind |-> "malformed", at |-> 0]}
    \cup {[kind |-> k, at |-> t] : k \in {"aware", "naive"}, t \in DueTimes}

\* The "submitted" key of an assignment: absent, or present with a value.
SubmittedFlags == {<<>>, <<TRUE>>, <<FALSE>>}

\* The names assignments have; "" is an assignment without a name key, for which
\* assignment.get("name", "") is the empty string.
AssignmentNames == {"Quiz 1", "QUIZ 2", "Essay", ""}

DefaultName(id) ==
    CASE id % 3 = 1 -> "Quiz 1" [] id % 3 = 2 -> "QUIZ 2" [] OTHER -> "Essay"

\* An assignment object of the LMS; description stands for the fields no tool uses.
Assignment(id, due, sub) ==
    [id |-> id, name |-> DefaultName(id), due_at |-> due,
     points_possible |-> 10 * id, submitted |-> sub, description |-> "text"]

\* What get_assignments(course_id) returns: every list of up to n assignments, in
\* the LMS's order.
AssignmentLists(n) ==
    UNION {{[i \in 1..k |-> Assignment(i, f[i][1], f[i][2])] :
               f \in [1..k -> DueAts \X SubmittedFlags]} : k \in 0..n}

\* A course with n assignments, due in one or two days from the earliest clock
\* reading; every fifth one is submitted.
LongList(n) ==
    [i \in 1..n |->
        Assignment(i, [kind |-> "naive", at |-> 3 + (i % 2)],
                   CASE i % 5 = 0 -> <<TRUE>> [] i % 5 = 1 -> <<FALSE>> [] OTHER -> <<>>)]

LongLists(longest) == {LongList(n) : n \in 0..longest}

\* Every list of up to n assignments over the names, all due on day 3.
NamedLists(n) ==
    UNION {{[i \in 1..k |->
                [Assignment(i, [kind |-> "naive", at |-> 3], <<>>) EXCEPT !.name = f[i]]] :
               f \in [1..k -> AssignmentNames]} : k \in 0..n}

\* assignment.get("submitted", False)
Submitted(a) == IF a.submitted = <<>> THEN FALSE ELSE a.submitted[1]

\* agent.py lines 306-312: the entry kept for one assignment.
ShapeAssignment(a) ==
    [id |-> a.id, name |-> a.name, due_at |-> a.due_at,
     points_possible |-> a.points_possible, submitted |-> Submitted(a)]

\* agent.py line 305: result[:15].
ShapeLimit == 15

\* A shaping that keeps every assignment.
ShapeAssignmentsUncut(result) == [i \in 1..Len(result) |-> ShapeAssignment(result[i])]

\* agent.py lines 304-312: simplified_result.
ShapeAssignments(result) ==
    [i \in 1..Min(Len(result), ShapeLimit) |-> ShapeAssignment(result[i])]

\* The operations below change neither the LMS nor the clock, so each is applied
\* to a client on which none has been applied yet.
Fresh == op = NoOp

\* agent.py lines 295-313: the get_assignments branch applied to the course's list.
GetAssignmentsBranch ==
    /\ Fresh
    /\ op' = [name |-> "get_assignments", days |-> 0]
    /\ out' = [kind |-> "ok", label |-> Label("get_assignments"),
               entries |-> ShapeAssignments(backend),
               large |-> MarksLarge("get_assignments", Len(backend))]
    /\ UNCHANGED <<agentVars, inputVars>>

\* str(e) of comparing datetime.now() with a due date that carries an offset.
TypeErrorText == "can't compare offset-naive and offset-aware datetimes"

\* A window that holds the cutoff day only.
UpcomingVerdictOnCutoff(a, t, days) ==
    IF a.due_at.kind = "missing" \/ Submitted(a) THEN "skip"
    ELSE IF a.due_at.kind = "malformed" THEN "skip"
    ELSE IF a.due_at.kind = "aware" THEN "raise"
    ELSE IF a.due_at.at = t + days THEN "keep"
    ELSE "skip"

\* canvas_client.py lines 305-318: what one iteration of the loop does with an
\* assignment: "skip" (continue), "keep" (append), or "raise".
UpcomingVerdict(a, t, days) ==
    IF a.due_at.kind = "missing" \/ Submitted(a) THEN "skip"          \* line 307
    ELSE IF a.due_at.kind = "malformed" THEN "skip"                   \* ValueError, line 316
    ELSE IF a.due_at.kind = "aware" THEN "raise"                      \* TypeError, line 313
    ELSE IF t < a.due_at.at /\ a.due_at.at <= t + days THEN "keep"
    ELSE "skip"

RECURSIVE UpcomingLoop(_, _, _, _, _)
UpcomingLoop(all_assignments, i, upcoming, t, days) ==
    IF i > Len(all_assignments) THEN [kind |-> "ok", value |-> upcoming]
    ELSE LET verdict == UpcomingVerdict(all_assignments[i], t, days)
         IN  IF verdict = "raise" THEN [kind |-> "raise", error |-> TypeErrorText]
             ELSE UpcomingLoop(all_assignments, i + 1,
                               IF verdict = "keep"
                               THEN Append(upcoming, all_assignments[i]) ELSE upcoming,
                               t, days)

\* canvas_client.py lines 287-320.
GetUpcomingAssignments(all_assignments, t, days) ==
    UpcomingLoop(all_assignments, 1, <<>>, t, days)

UpcomingCall ==
    \E days \in HorizonDays :
        /\ Fresh
        /\ op' = [name |-> "get_upcoming_assignments", days |-> days]
        /\ out' = GetUpcomingAssignments(backend, now, days)
        /\ UNCHANGED <<agentVars, inputVars>>

\* A late filter with a day of grace on the wrong side.
LateVerdictWithGrace(a, t) ==
    IF a.due_at.kind = "missing" \/ Submitted(a) THEN "skip"
    ELSE IF a.due_at.kind = "malformed" THEN "skip"
    ELSE IF a.due_at.kind = "aware" THEN "raise"
    ELSE IF a.due_at.at <= t + 1 THEN "keep"
    ELSE "skip"

\* canvas_client.py lines 338-351: one iteration of the loop of get_late_assignments.
LateVerdict(a, t) ==
    IF a.due_at.kind = "missing" \/ Submitted(a) THEN "skip"          \* line 340
    ELSE IF a.due_at.kind = "malformed" THEN "skip"                   \* ValueError, line 349
    ELSE IF a.due_at.kind = "aware" THEN "raise"                      \* TypeError, line 346
    ELSE IF a.due_at.at < t THEN "keep"
    ELSE "skip"

RECURSIVE LateLoop(_, _, _, _)
LateLoop(all_assignments, i, late, t) ==
    IF i > Len(all_assignments) THEN [kind |-> "ok", value |-> late]
    ELSE LET verdict == LateVerdict(all_assignments[i], t)
         IN  IF verdict = "raise" THEN [kind |-> "raise", error |-> TypeErrorText]
             ELSE LateLoop(all_assignments, i + 1,
                           IF verdict = "keep"
                           THEN Append(late, all_assignments[i]) ELSE late,
                           t)

\* canvas_client.py lines 322-353.
GetLateAssignments(all_assignments, t) == LateLoop(all_assignments, 1, <<>>, t)

LateCall ==
    /\ Fresh
    /\ op' = [name |-> "get_late_assignments", days |-> 0]
    /\ out' = GetLateAssignments(backend, now)
    /\ UNCHANGED <<agentVars, inputVars>>

\* agent.py lines 327-332: the entry kept for one upcoming assignment.
ShapeUpcomingEntry(a) ==
    [id |-> a.id, name |-> a.name, due_at |-> a.due_at,
     points_possible |-> a.points_possible]

\* A shaping cut like that of get_assignments.
ShapeUpcomingCapped(result) ==
    [i \in 1..Min(Len(result), ShapeLimit) |-> ShapeUpcomingEntry(result[i])]

\* agent.py lines 325-333: simplified_result of the get_upcoming_assignments branch.
ShapeUpcoming(result) == [i \in 1..Len(result) |-> ShapeUpcomingEntry(result[i])]

\* agent.py lines 320-334 and 369-374: the get_upcoming_assignments branch; returned
\* is what the adapter handed to the branch.
GetUpcomingBranch ==
    \E days \in HorizonDays :
        LET result == GetUpcomingAssignments(backend, now, days)
        IN  /\ Fresh
            /\ op' = [name |-> "get_upcoming_assignments branch", days |-> days]
            /\ out' = IF result.kind = "ok"
                       THEN [kind |-> "ok", label |-> Label("get_upcoming_assignments"),
                             returned |-> result.value,
                             entries |-> ShapeUpcoming(result.value)]
                       ELSE [kind |-> "error",
                             error |-> ErrorMsg("get_upcoming_assignments", result.error)]
            /\ UNCHANGED <<agentVars, inputVars>>

\* The name patterns find_assignment_by_name is called with.
NamePatterns == {"quiz", "Z 2", "essay", "exam", "Quiz 12", ""}

\* The characters of the names and patterns.
Chars(text) ==
    CASE text = "" -> <<>>
      [] text = "Quiz 1" -> <<"Q", "u", "i", "z", " ", "1">>
      [] text = "QUIZ 2" -> <<"Q", "U", "I", "Z", " ", "2">>
      [] text = "Essay" -> <<"E", "s", "s", "a", "y">>
      [] text = "quiz" -> <<"q", "u", "i", "z">>
      [] text = "Z 2" -> <<"Z", " ", "2">>
      [] text = "essay" -> <<"e", "s", "s", "a", "y">>
      [] text = "exam" -> <<"e", "x", "a", "m">>
      [] text = "Quiz 12" -> <<"Q", "u", "i", "z", " ", "1", "2">>

\* str.lower() on one character.
LowerChar(c) ==
    CASE c = "Q" -> "q" [] c = "U" -> "u" [] c = "I" -> "i" [] c = "Z" -> "z"
      [] c = "E" -> "e" [] OTHER -> c

\* str.lower().
ToLower(cs) == [i \in 1..Len(cs) |-> LowerChar(cs[i])]

\* pattern in name
IsSubstring(pattern, name) ==
    \E k \in 0..(Len(name) - Len(pattern)) : SubSeq(name, k + 1, k + Len(pattern)) = pattern

\* A match that compares the characters as they are.
NameMatchesCaseSensitive(name_pattern, name) == IsSubstring(Chars(name_pattern), Chars(name))

\* canvas_client.py lines 242-247: both sides are lowered, then pattern in name.
NameMatches(name_pattern, name) ==
    IsSubstring(ToLower(Chars(name_pattern)), ToLower(Chars(name)))

\* canvas_client.py lines 244-250: the first matching assignment, <<a>>, or None, <<>>.
RECURSIVE FindLoop(_, _, _)
FindLoop(assignments, i, name_pattern) ==
    IF i > Len(assignments) THEN <<>>
    ELSE IF NameMatches(name_pattern, assignments[i].name) THEN <<assignments[i]>>
    ELSE FindLoop(assignments, i + 1, name_pattern)

\* canvas_client.py lines 228-250.
FindAssignmentByName(assignments, name_pattern) == FindLoop(assignments, 1, name_pattern)

FindCall ==
    \E name_pattern \in NamePatterns :
        /\ Fresh
        /\ op' = [name |-> "find_assignment_by_name", pattern |-> name_pattern]
        /\ out' = [kind |-> "ok", value |-> FindAssignmentByName(backend, name_pattern)]
        /\ UNCHANGED <<agentVars, inputVars>>

(***************************************************************************)
(* get_assignment_summary (canvas_client.py lines 355-416).                *)
(***************************************************************************)
\* The due dates of the courses' assignments: two days in the past, two days at the
\* edge of a week from now, and one date with an offset.
SummaryDueAts ==
    {[kind |-> "naive", at |-> t] : t \in {0, 1, 9, 10}} \cup {[kind |-> "aware", at |-> 9]}

\* The due dates of one course's assignments, in the LMS's order: no assignment,
\* one, or two (later one first, late and upcoming, one with an offset).
SummaryDueSeqs ==
    LET naive(t) == [kind |-> "naive", at |-> t]
    IN  {<<>>} \cup {<<d>> : d \in SummaryDueAts}
        \cup {<<naive(1), naive(0)>>, <<naive(10), naive(9)>>, <<naive(0), naive(9)>>,
              <<naive(9), [kind |-> "aware", at |-> 9]>>}

CourseName(c) == "Course " \o ToString(c)

\* What get_courses() returns together with what get_assignments returns for each
\* course: every list of up to n courses.
CourseLists(n) ==
    UNION {{[c \in 1..k |->
                [id |-> 100 * c, name |-> CourseName(c),
                 assignments |-> [i \in 1..Len(f[c]) |->
                                     Assignment(10 * c + i, f[c][i], <<>>)]]] :
               f \in [1..k -> SummaryDueSeqs]} : k \in 0..n}

\* The values of max_courses the tool is called with.
MaxCoursesArgs == {-1, 0, 1, 2, 5}

\* courses[:max_courses]
Slice(cs, k) ==
    IF k >= 0 THEN SubSeq(cs, 1, Min(k, Len(cs)))
    ELSE SubSeq(cs, 1, IF Len(cs) + k > 0 THEN Len(cs) + k ELSE 0)

\* Line 394: days=7.
SummaryHorizon == 7

\* Lines 384-391 and 397-404: the entry made of an assignment of a course.
SummaryEntry(course, a) ==
    [course_name |-> course.name, course_id |-> course.id, assignment_name |-> a.name,
     assignment_id |-> a.id, due_date |-> a.due_at, points_possible |-> a.points_possible]

SummaryEntries(course, as) == [i \in 1..Len(as) |-> SummaryEntry(course, as[i])]

\* The order of the due-date strings: ISO dates of one format compare as their times.
DueKey(entry) == entry.due_date.at

\* x put behind the entries of a sorted list that are not greater.
RECURSIVE Insert(_, _)
Insert(x, sorted) ==
    IF sorted = <<>> THEN <<x>>
    ELSE IF DueKey(x) < DueKey(Head(sorted)) THEN <<x>> \o sorted
    ELSE <<Head(sorted)>> \o Insert(x, Tail(sorted))

\* A summary that leaves the entries in the order of collection.
SortByDueNot(entries) == entries

\* Lines 413-414: list.sort(key = due_date), a stable sort.
RECURSIVE SortByDue(_)
SortByDue(entries) ==
    IF entries = <<>> THEN <<>>
    ELSE Insert(entries[Len(entries)], SortByDue(SubSeq(entries, 1, Len(entries) - 1)))

\* Lines 379-404: the loop over the courses; an exception of either filter leaves it.
RECURSIVE SummaryLoop(_, _, _, _, _)
SummaryLoop(cs, i, lates, upcomings, t) ==
    IF i > Len(cs) THEN [kind |-> "ok", late |-> lates, upcoming |-> upcomings]
    ELSE LET late == GetLateAssignments(cs[i].assignments, t)
             upcoming == GetUpcomingAssignments(cs[i].assignments, t, SummaryHorizon)
         IN  IF late.kind = "raise" THEN late
             ELSE IF upcoming.kind = "raise" THEN upcoming
             ELSE SummaryLoop(cs, i + 1, lates \o SummaryEntries(cs[i], late.value),
                              upcomings \o SummaryEntries(cs[i], upcoming.value), t)

\* Lines 355-416; queried lists the ids of the courses whose assignments were asked for.
GetAssignmentSummary(all_courses, t, max_courses) ==
    IF all_courses = <<>>
    THEN [kind |-> "ok", queried |-> <<>>, value |-> [summary |-> "No courses found"]]
    ELSE LET cs == Slice(all_courses, max_courses)
             collected == SummaryLoop(cs, 1, <<>>, <<>>, t)
         IN  IF collected.kind = "raise" THEN collected
             ELSE [kind |-> "ok",
                   queried |-> [i \in 1..Len(cs) |-> cs[i].id],
                   value |-> [courses |-> Len(cs),
                              courses_checked |-> Min(Len(cs), max_courses),
                              late_assignments |-> SortByDue(collected.late),
                              upcoming_assignments |-> SortByDue(collected.upcoming)]]

SummaryCall ==
    \E max_courses \in MaxCoursesArgs :
        /\ Fresh
        /\ op' = [name |-> "get_assignment_summary", max_courses |-> max_courses]
        /\ out' = GetAssignmentSummary(courses, now, max_courses)
        /\ UNCHANGED <<agentVars, inputVars>>

(***************************************************************************)
(* The LMS adapter's request: CanvasClient._make_request.                  *)
(***************************************************************************)
Methods == {"GET", "POST", "PUT", "DELETE"}

\* The statuses the LMS answers with: the one the adapter accepts, two other
\* success statuses, a client error and a server error.
Statuses == {200, 201, 204, 404, 500}

\* A JSON envelope is a function from the keys it holds to their values: each
\* of success, data and error may be missing.
Envelopes ==
    LET absent == [k \in {} |-> k]
        field(key, values) == {absent} \cup {(key :> v) : v \in values}
    IN  {s @@ d @@ e : s \in field("success", BOOLEAN),
                       d \in field("data", {"courses"}),
                       e \in field("error", {"Not found"})}

\* A body that is not JSON.
MalformedBody == [raw |-> "<html>"]

Bodies == Envelopes \cup {MalformedBody}

\* What happens on the wire: the connection is refused or times out while
\* connecting (aiohttp.ClientError), the whole request times out
\* (asyncio.TimeoutError, not an aiohttp.ClientError), or a response arrives.
TransportFailures == {"refused", "connect timeout", "total timeout"}

Exchanges ==
    {[kind |-> k] : k \in TransportFailures}
    \cup {[kind |-> "response", status |-> s, body |-> b] : s \in Statuses, b \in Bodies}

\* dict.get(key, default)
Get(e, key, default) == IF key \in DOMAIN e THEN e[key] ELSE default

EmptyData == "{}"

Raise(type, message) == [kind |-> "raise", type |-> type, message |-> message]

\* json.loads over the response text, then the envelope's success flag.
ReadEnvelope(body) ==
    IF body = MalformedBody
    THEN Raise("JSONDecodeError", [prefix |-> "Expecting value"])
    ELSE IF Get(body, "success", FALSE)
         THEN [kind |-> "ok", data |-> Get(body, "data", EmptyData)]
         ELSE Raise("Exception", [prefix |-> "Canvas API error: ",
                                  detail |-> Get(body, "error", "Unknown error")])

StatusOkAny2xx(status) == status \in 200..299

StatusOk(status) == status = 200

\* The response branch, the same for GET, POST and PUT; DELETE takes a body
\* that is not JSON under status 200 for a success.
ReadResponse(method, status, body) ==
    IF StatusOk(status)
    THEN IF method = "DELETE" /\ body = MalformedBody
         THEN [kind |-> "ok", data |-> [status |-> "success"]]
         ELSE ReadEnvelope(body)
    ELSE Raise("Exception", [prefix |-> "Canvas API error (", status |-> status,
                             detail |-> body])

\* An aiohttp.ClientError is raised again as a plain Exception; every other
\* exception leaves the function as it is.
MakeRequest(method, exchange) ==
    CASE exchange.kind = "response" ->
             ReadResponse(method, exchange.status, exchange.body)
      [] exchange.kind \in {"refused", "connect timeout"} ->
             Raise("Exception", [prefix |-> "Network error when connecting to Canvas API: ",
                                 detail |-> exchange.kind])
      [] exchange.kind = "total timeout" ->
             Raise("TimeoutError", [prefix |-> ""])

MakeRequestCall ==
    \E method \in Methods, exchange \in Exchanges :
        /\ Fresh
        /\ op' = [name |-> "_make_request", method |-> method, exchange |-> exchange]
        /\ out' = MakeRequest(method, exchange)
        /\ UNCHANGED <<agentVars, inputVars>>

(***************************************************************************)
(* The process: main and the start of main_loop (main.py lines 60-74 and   *)
(* 116-139), and the launcher run.py.                                      *)
(***************************************************************************)
sessionVars ==
    <<context, system_prompt, line, pc, active, msgCount, cycleVars, callVars, returned>>

\* main.py lines 121-126: an argument argparse does not know ends the process
\* with status 2 before anything else runs.
ParseArgs ==
    /\ loopPc = "start"
    /\ \E accepted \in BOOLEAN :
           IF accepted
           THEN loopPc' = "validate" /\ exit_code' = exit_code
           ELSE loopPc' = "fatal" /\ exit_code' = 2
    /\ UNCHANGED <<sessionVars, clientVars, env, constructed,
                   reported>>

\* A validation that looks at the API key only.
MissingVarsKeyOnly(e) == {"OPENAI_API_KEY"} \ e

\* main.py lines 41-47: missing_vars.
MissingVars(e) == RequiredVars \ e

\* main.py lines 49-58 and 68: sys.exit(1) when a required variable is missing.
ValidateEnvironment ==
    /\ loopPc = "validate"
    /\ IF MissingVars(env) # {}
       THEN loopPc' = "fatal" /\ exit_code' = 1
       ELSE loopPc' = "construct" /\ exit_code' = exit_code
    /\ UNCHANGED <<sessionVars, clientVars, env, constructed,
                   reported>>

\* main.py line 71: CanvasAgent(debug=debug).  An exception of the constructor
\* (agent.py lines 34-35 build the two clients) leaves main_loop and is caught
\* at main.py lines 136-139: sys.exit(1).
Construct ==
    /\ loopPc = "construct"
    /\ \E raised \in BOOLEAN :
           IF raised
           THEN loopPc' = "fatal" /\ exit_code' = 1 /\ constructed' = FALSE
           ELSE loopPc' = "input" /\ exit_code' = exit_code /\ constructed' = TRUE
    /\ UNCHANGED <<sessionVars, clientVars, env, reported>>

\* A keyboard interrupt while the loop is at input() or awaits process_message.
\* It is caught by the loop (main.py lines 107-109, break) or by the launcher
\* (run.py lines 19-21, sys.exit(0)); when main.py is started directly and the
\* interrupt is raised by asyncio.run, main's except Exception does not catch it
\* and the process ends by the interrupt, status 130.  A process_message that
\* was awaited is abandoned where it stands.
Interrupt ==
    /\ loopPc \in {"input", "await"}
    /\ \E caught \in BOOLEAN :
           /\ loopPc' = "interrupted"
           /\ exit_code' = IF caught THEN 0 ELSE 130
    /\ pc' = "Idle"
    /\ active' = 0
    /\ UNCHANGED <<context, system_prompt, line, msgCount, cycleVars, callVars, returned,
                   clientVars, env, constructed,
                   reported>>

(***************************************************************************)
(* The handler of the console loop (main.py lines 111-114).                *)
(***************************************************************************)
\* A handler that lets the exception end the loop.
AfterReportLeaves == "fatal"

\* Lines 111-114: the handler logs and prints, and the while loop goes on to
\* input().
AfterReport == "input"

\* Line 80: input() raises EOFError when the console is at end of input.  No line
\* is read and process_message is not called.
ReadFails ==
    /\ CanRead
    /\ reported' = "EOF when reading a line"
    /\ loopPc' = AfterReport
    /\ UNCHANGED <<sessionVars, clientVars, env, constructed, exit_code>>

\* Lines 101-103: process_message has returned and printing its text raises (a
\* character the console cannot encode).  The assistant turn is already stored.
PrintFails ==
    /\ CanRead
    /\ pc = "Idle"
    /\ returned # None
    /\ line = Message(msgCount)
    /\ reported' = "codec can't encode character"
    /\ loopPc' = AfterReport
    /\ UNCHANGED <<sessionVars, clientVars, env, constructed, exit_code>>

(***************************************************************************)
(* Specifications.                                                         *)
(***************************************************************************)
\* One message, every list of up to MaxCalls invocations, every adapter outcome.
Next ==
    \/ ReadLine(MaxMsgs)
    \/ GenerateWithToolsReturns(ToolCallLists)
    \/ DecodeFails
    \/ Dispatch(AdapterOutcomes)
    \/ Aggregate
    \/ GenerateResponseReturns

Spec == Init /\ [][Next]_vars

\* Long sessions: up to MaxSessionMsgs messages, one invocation per response.
NextSession ==
    \/ ReadLine(MaxSessionMsgs)
    \/ GenerateWithToolsReturns(SessionToolCallLists)
    \/ DecodeFails
    \/ Dispatch(SessionAdapterOutcomes)
    \/ Aggregate
    \/ GenerateResponseReturns

SpecSession == Init /\ [][NextSession]_vars

\* The adapter's operations applied to every course list and clock reading.
InitClient ==
    /\ AgentInit
    /\ env = RequiredVars
    /\ constructed = TRUE
    /\ exit_code = NoExit
    /\ reported = NoReport
    /\ backend \in AssignmentLists(MaxAssignments) \cup LongLists(MaxListLen)
                   \cup NamedLists(MaxAssignments)
    /\ courses = <<>>
    /\ now \in Clock
    /\ op = NoOp
    /\ out = NoOutcome

NextClient ==
    \/ GetAssignmentsBranch
    \/ UpcomingCall
    \/ LateCall
    \/ GetUpcomingBranch
    \/ FindCall

SpecClient == InitClient /\ [][NextClient]_vars

\* get_assignment_summary applied to every list of courses and clock reading.
InitSummary ==
    /\ AgentInit
    /\ env = RequiredVars
    /\ constructed = TRUE
    /\ exit_code = NoExit
    /\ reported = NoReport
    /\ backend = <<>>
    /\ courses \in CourseLists(MaxCourses)
    /\ now \in Clock
    /\ op = NoOp
    /\ out = NoOutcome

NextSummary == SummaryCall

SpecSummary == InitSummary /\ [][NextSummary]_vars

\* One request of every method over every exchange with the LMS.
NextRequest == MakeRequestCall

SpecRequest == Init /\ [][NextRequest]_vars

\* The process from its start, over every environment: one message, every list of
\* up to MaxCalls invocations, a keyboard interrupt at any time.
InitProcess ==
    /\ SessionInit
    /\ ClientIdle
    /\ loopPc = "start"
    /\ env \in SUBSET RequiredVars
    /\ constructed = FALSE
    /\ exit_code = NoExit
    /\ reported = NoReport

NextProcess ==
    \/ ParseArgs
    \/ ValidateEnvironment
    \/ Construct
    \/ Interrupt
    \/ ReadLine(MaxMsgs)
    \/ GenerateWithToolsReturns(ToolCallLists)
    \/ DecodeFails
    \/ Dispatch(AdapterOutcomes)
    \/ Aggregate
    \/ GenerateResponseReturns

SpecProcess == InitProcess /\ [][NextProcess]_vars

\* What the gateway may send beside the catalog's names: a name the dispatcher has
\* no branch for.
UnknownToolNames == {"get_grades"}

GatewayToolCallLists ==
    SeqsUpTo({Invocation(n, a) : n \in {"get_courses"} \cup UnknownToolNames,
                                 a \in ArgumentStrings}, MaxCalls) \ {<<>>}

\* One message whose invocations may carry a name outside the dispatcher's chain.
NextGateway ==
    \/ ReadLine(MaxMsgs)
    \/ GenerateWithToolsReturns(GatewayToolCallLists)
    \/ DecodeFails
    \/ Dispatch(AdapterOutcomes)
    \/ Aggregate
    \/ GenerateResponseReturns

SpecGateway == Init /\ [][NextGateway]_vars

\* The same under the assumption that every call of the gateway and of the adapter
\* returns or raises: each step that waits for one is eventually taken.  Nothing
\* obliges the user to type a line.
CallsReturn ==
    /\ WF_vars(GenerateWithToolsReturns(GatewayToolCallLists))
    /\ WF_vars(DecodeFails)
    /\ WF_vars(Dispatch(AdapterOutcomes))
    /\ WF_vars(Aggregate)
    /\ WF_vars(GenerateResponseReturns)

SpecGatewayLive == Init /\ [][NextGateway]_vars /\ CallsReturn

\* The console: one message with one invocation, a keyboard interrupt at any time,
\* end of input at the prompt, a failure to print the answer.
NextConsole ==
    \/ ReadLine(MaxMsgs)
    \/ GenerateWithToolsReturns(SessionToolCallLists)
    \/ DecodeFails
    \/ Dispatch(SessionAdapterOutcomes)
    \/ Aggregate
    \/ GenerateResponseReturns
    \/ Interrupt
    \/ ReadFails
    \/ PrintFails

SpecConsole == Init /\ [][NextConsole]_vars

(***************************************************************************)
(* Vocabulary of the properties.                                           *)
(***************************************************************************)
\* The turns stored since the user turn of the current cycle.
CycleTurns == SubSeq(context, base + 1, Len(context))

IsErrorReport(t) == t.role = "function" /\ t.name = "error_report"

IsToolResult(t) == t.role = "function" /\ t.name # "error_report"

NumToolResults(ts) == Cardinality({i \in DOMAIN ts : IsToolResult(ts[i])})

NumErrorReports(ts) == Cardinality({i \in DOMAIN ts : IsErrorReport(ts[i])})

Contains(text, token) == \E i \in DOMAIN text : text[i] = token

\* The invocations of the cycle that failed in the adapter.
Failed == {i \in DOMAIN outcomes : outcomes[i] = "fail"}

\* Every invocation of the cycle decodes and names a registered tool, so that each
\* one either succeeds or fails in the adapter.
AllReachAdapter ==
    /\ tool_calls # <<>>
    /\ \A i \in DOMAIN tool_calls :
          WellFormed(tool_calls[i].arguments) /\ tool_calls[i].name \in DispatchTable

RECURSIVE RenderedInOrder(_)
\* The rendered results of the successful invocations among the first n, in order.
RenderedInOrder(n) ==
    IF n = 0 THEN <<>>
    ELSE IF outcomes[n] = "ok"
         THEN Append(RenderedInOrder(n - 1), Render(tool_calls[n].name))
         ELSE RenderedInOrder(n - 1)

(***************************************************************************)
(* C1.  Per-call failure isolation: for a list of n invocations of which k *)
(* fail in the adapter (the others succeed), all n are attempted, the      *)
(* cycle stores exactly n-k tool-result turns and exactly one error_report *)
(* turn if k >= 1 (none if k = 0) whose content holds the name of each     *)
(* failing tool, and generate_response is still called and its text        *)
(* returned.                                                               *)
(***************************************************************************)
C1_FailureIsolation ==
    /\ (pc = "AwaitingFinalModel" /\ AllReachAdapter) =>
          /\ Len(outcomes) = Len(tool_calls)
          /\ \A i \in DOMAIN outcomes : outcomes[i] \in {"ok", "fail"}
          /\ NumToolResults(CycleTurns) = Len(tool_calls) - Cardinality(Failed)
          /\ NumErrorReports(CycleTurns) = IF Failed = {} THEN 0 ELSE 1
          /\ \A i \in Failed :
                \E j \in DOMAIN CycleTurns :
                    /\ IsErrorReport(CycleTurns[j])
                    /\ Contains(CycleTurns[j].content, tool_calls[i].name)
          /\ lastCall.op = "generate_response"
    /\ (pc = "Idle" /\ AllReachAdapter) =>
          /\ Len(outcomes) = Len(tool_calls)
          /\ calls.respond = 1
          /\ returned = reply
          /\ returned \in RespondResults

\* A cycle of two invocations, the first failing, has returned the final text.
C1_Witness ==
    /\ pc = "Idle"
    /\ AllReachAdapter
    /\ outcomes = <<"fail", "ok">>
    /\ returned \in FinalTexts
    /\ Len(context) > base

(***************************************************************************)
(* C2.  An invocation whose arguments do not decode is caught at the       *)
(* per-invocation boundary: it is recorded as a failure of that invocation *)
(* tagged with its tool name, the remaining invocations are still          *)
(* attempted, and generate_response is still called.                       *)
(***************************************************************************)
C2_DecodeErrorIsolated ==
    (pc = "Idle" /\ \E i \in DOMAIN outcomes : outcomes[i] = "decode_error") =>
        /\ Len(outcomes) = Len(tool_calls)
        /\ calls.respond = 1
        /\ \A i \in DOMAIN outcomes :
              outcomes[i] = "decode_error" =>
                  \E j \in DOMAIN errors : Contains(errors[j], tool_calls[i].name)

(***************************************************************************)
(* C3.  History cap: in every reachable state the history holds at most    *)
(* MAX_CONTEXT_LENGTH turns.                                               *)
(***************************************************************************)
C3_HistoryCapped == Len(context) <= MAX_CONTEXT_LENGTH

(***************************************************************************)
(* C4.  Each tool-result turn stored in a dispatch cycle is named by the   *)
(* tool whose result it holds.                                             *)
(***************************************************************************)
C4_ResultTurnNamedByItsTool ==
    pc = "AwaitingFinalModel" =>
        \A j \in DOMAIN CycleTurns :
            IsToolResult(CycleTurns[j]) =>
                /\ CycleTurns[j].name \in DispatchTable
                /\ CycleTurns[j].content = Render(CycleTurns[j].name)

(***************************************************************************)
(* C5.  Oldest-first truncation on the user append: when a user message    *)
(* arrives at a history H with |H| >= MAX_CONTEXT_LENGTH, the history      *)
(* handed to the gateway has length exactly MAX_CONTEXT_LENGTH, ends with  *)
(* the new user turn, and before it holds the most recent                  *)
(* MAX_CONTEXT_LENGTH - 1 turns of H in their order.                       *)
(***************************************************************************)
C5_OldestFirstTruncation ==
    [][(pc = "Idle" /\ pc' = "AwaitingModel" /\ Len(context) >= MAX_CONTEXT_LENGTH) =>
          /\ Len(context') = MAX_CONTEXT_LENGTH
          /\ context'[MAX_CONTEXT_LENGTH] = UserTurn(<<Message(msgCount')>>)
          /\ \A i \in 1..(MAX_CONTEXT_LENGTH - 1) :
                context'[i] = context[Len(context) - MAX_CONTEXT_LENGTH + 1 + i]
          /\ lastCall'.messages = context']_vars

\* A user message has arrived at a history longer than the maximum.
C5_Witness ==
    /\ pc = "AwaitingModel"
    /\ before > MAX_CONTEXT_LENGTH
    /\ Len(context) = MAX_CONTEXT_LENGTH

(***************************************************************************)
(* C6.  Transcript order: within a dispatch cycle the tool-result turns are*)
(* stored in the order of the invocations, the error-report turn (if any)  *)
(* after all of them, and the final assistant turn after both.             *)
(***************************************************************************)
C6_TranscriptOrder ==
    (\/ pc = "AwaitingFinalModel"
     \/ pc = "Idle" /\ calls.respond = 1 /\ Len(context) > base) =>
        LET ct == CycleTurns
            rendered == RenderedInOrder(Len(outcomes))
            nres == Len(rendered)
            nerr == IF errors = <<>> THEN 0 ELSE 1
            nfin == IF pc = "Idle" THEN 1 ELSE 0
        IN  /\ Len(ct) = nres + nerr + nfin
            /\ \A i \in 1..nres : IsToolResult(ct[i]) /\ ct[i].content = rendered[i]
            /\ nerr = 1 => IsErrorReport(ct[nres + 1])
            /\ nfin = 1 => ct[Len(ct)] = AssistantTurn(returned)

\* Two different tools succeeded in one cycle, and the cycle has returned.
C6_Witness ==
    /\ pc = "Idle"
    /\ calls.respond = 1
    /\ Len(context) > base
    /\ Len(results) = 2
    /\ results[1] # results[2]

(***************************************************************************)
(* C7.  Fan-in barrier: generate_response is never called before every     *)
(* invocation of the cycle has finished and the resulting turns have been  *)
(* stored; the history it is given is the full updated history.            *)
(***************************************************************************)
C7_FanInBarrier ==
    (calls.respond >= 1 /\ pc # "Idle") =>
        /\ pc = "AwaitingFinalModel"
        /\ Len(outcomes) = Len(tool_calls)
        /\ lastCall.op = "generate_response"
        /\ lastCall.messages = context
        /\ Len(context) = base + Len(results) + (IF errors = <<>> THEN 0 ELSE 1)

\* The final call is in flight after two invocations, one failed.
C7_Witness ==
    /\ pc = "AwaitingFinalModel"
    /\ Len(tool_calls) = 2
    /\ Len(results) = 1
    /\ Len(errors) = 1

(***************************************************************************)
(* C8.  Strictly sequential session: a new user message is accepted only   *)
(* when the previous cycle is back in Idle, so at most one process_message *)
(* cycle is active on the history at any time.                             *)
(***************************************************************************)
C8_SequentialSession ==
    /\ active <= 1
    /\ (pc = "Idle") = (active = 0)
    /\ loopPc = "input" => pc = "Idle"
    /\ pc # "Idle" => loopPc = "await"

\* A second message is being processed.
C8_Witness ==
    /\ msgCount = 2
    /\ pc = "DispatchingTools"
    /\ active = 1

(***************************************************************************)
(* C9.  process_message always returns a text: whatever the gateway and    *)
(* the adapter do (answer, provider failure, remote error, transport       *)
(* error, malformed arguments), the caller gets a non-empty text and the   *)
(* console loop is back at its prompt.                                     *)
(***************************************************************************)
C9_AlwaysReturnsText ==
    (pc = "Idle" /\ msgCount > 0) =>
        /\ returned # None
        /\ \A i \in DOMAIN returned : returned[i] \in STRING
        /\ loopPc \in {"input", "exited"}
        /\ active = 0

\* A cycle whose arguments did not decode has returned the fallback text.
C9_Witness ==
    /\ pc = "Idle"
    /\ loopPc = "input"
    /\ returned = ToolFallback(JsonError)

(***************************************************************************)
(* C10.  No-tool path: when generate_with_tools returns text and no tool   *)
(* calls, the cycle adds to the history exactly the user turn followed by  *)
(* one assistant turn holding that text, dispatches nothing to the         *)
(* adapter, and process_message returns that text.                         *)
(***************************************************************************)
C10_NoToolPath ==
    [][(pc = "AwaitingModel" /\ pc' = "Idle") =>
          /\ Len(context) = base
          /\ context[base] = UserTurn(<<Message(msgCount)>>)
          /\ context' = Append(context, AssistantTurn(reply'))
          /\ returned' = reply'
          /\ reply' \in ModelTexts \cup {Apology(e) : e \in ProviderErrors}
          /\ outcomes' = <<>>
          /\ calls' = [with_tools |-> 1, respond |-> 0]]_vars

\* A cycle answered by plain text has returned.
C10_Witness ==
    /\ pc = "Idle"
    /\ tool_calls = <<>>
    /\ returned \in ModelTexts
    /\ Len(context) = base + 1
    /\ context[Len(context)] = AssistantTurn(returned)

(***************************************************************************)
(* Further vocabulary.                                                     *)
(***************************************************************************)
\* The spellings of the console commands.
ExitLines == {"exit", "EXIT", "Exit", "quit", "QUIT", "Quit"}
ResetLines == {"reset", "RESET", "Reset"}
HelpLines == {"help", "HELP", "Help"}

\* The tools whose result is a list.
ListTools ==
    {"get_courses", "get_assignments", "get_upcoming_assignments", "get_late_assignments"}

\* Some result of this cycle from one of the given tools had more than 10 items.
LargeResultFrom(tools) ==
    \E k \in DOMAIN sizes :
        outcomes[k] = "ok" /\ tool_calls[k].name \in tools /\ sizes[k] > 10

TersePrompt == DEFAULT_SYSTEM_PROMPT \o TerseInstruction

(***************************************************************************)
(* C11.  Gateway call discipline: when a cycle is over, generate_with_tools *)
(* has been called exactly once, and generate_response exactly once if     *)
(* the response carried tool calls and not at all otherwise.               *)
(***************************************************************************)
C11_GatewayCallDiscipline ==
    (pc = "Idle" /\ msgCount > 0) =>
        /\ calls.with_tools = 1
        /\ calls.respond = (IF tool_calls # <<>> THEN 1 ELSE 0)

(***************************************************************************)
(* C12.  A gateway failure ends the request only: when the provider call   *)
(* of either gateway operation fails, the cycle ends with the apology      *)
(* (which embeds the error detail) appended as the assistant turn and      *)
(* returned; after a failing generate_with_tools no tool has run and       *)
(* generate_response is not called; the console loop is back at its        *)
(* prompt, ready for the next message.                                     *)
(***************************************************************************)
C12_GatewayFailureEndsRequestOnly ==
    [][(pc # "Idle" /\ pc' = "Idle" /\ providerError' # NoError) =>
          /\ reply' = <<"I'm sorry, I encountered an error", providerError'>>
          /\ returned' = reply'
          /\ context' = Append(context, AssistantTurn(reply'))
          /\ (pc = "AwaitingModel" =>
                 outcomes' = <<>> /\ calls' = [with_tools |-> 1, respond |-> 0])
          /\ loopPc' = "input"
          /\ active' = 0]_vars

\* After a message that ended in an apology, the next one was answered.
C12_Witness ==
    /\ pc = "Idle"
    /\ msgCount = 2
    /\ Len(context) = 4
    /\ context[2] = AssistantTurn(<<"I'm sorry, I encountered an error", "provider error">>)
    /\ context[4].role = "assistant"
    /\ context[4].content \in ModelTexts
    /\ returned = context[4].content

(***************************************************************************)
(* C13.  Large-result mitigation as the code has it: generate_response     *)
(* gets the instruction-augmented system prompt if and only if some        *)
(* get_assignments result of the cycle had more than 10 items; a result    *)
(* of exactly 10 items does not trigger it, and neither does a long        *)
(* result of another list tool.                                            *)
(***************************************************************************)
C13_TersePromptIffLargeAssignments ==
    pc = "AwaitingFinalModel" =>
        lastCall.system_prompt =
            (IF LargeResultFrom({"get_assignments"}) THEN TersePrompt
             ELSE DEFAULT_SYSTEM_PROMPT)

\* A cycle with an 11-item and a 10-item get_assignments result that used the
\* augmented prompt.
C13_Witness ==
    /\ pc = "AwaitingFinalModel"
    /\ Len(tool_calls) = 2
    /\ \A k \in 1..2 : tool_calls[k].name = "get_assignments"
    /\ sizes = <<11, 10>>
    /\ lastCall.system_prompt = TersePrompt

\* C13 as stated: the augmented prompt is used if and only if some result of a
\* list-type tool (courses, assignments, upcoming, late) had more than 10 items.
C13_TersePromptIffLargeListResult ==
    pc = "AwaitingFinalModel" =>
        lastCall.system_prompt =
            (IF LargeResultFrom(ListTools) THEN TersePrompt ELSE DEFAULT_SYSTEM_PROMPT)

(***************************************************************************)
(* C14.  The terser prompt applies to one model call only: the stored      *)
(* system prompt never changes, whatever messages and resets the session   *)
(* has seen, and every generate_with_tools call gets the stored prompt,    *)
(* also right after a cycle that used the augmented one.                   *)
(***************************************************************************)
C14_StoredPromptNeverChanges ==
    /\ system_prompt = DEFAULT_SYSTEM_PROMPT
    /\ lastCall.op = "generate_with_tools" =>
           lastCall.system_prompt = DEFAULT_SYSTEM_PROMPT

\* The gateway call before the current generate_with_tools used the augmented
\* prompt.
C14_Witness ==
    /\ pc = "AwaitingModel"
    /\ lastCall.op = "generate_with_tools"
    /\ lastCall.previous = TersePrompt

(***************************************************************************)
(* C15.  Size bound of get_assignments: for a course with n assignments    *)
(* the branch renders exactly min(n, 15) entries, the first min(n, 15) of  *)
(* the adapter's list in its order, each holding id, name, due_at,         *)
(* points_possible and submitted (false when the assignment has no such    *)
(* key) and nothing else.                                                  *)
(***************************************************************************)
C15_AssignmentsCappedAndShaped ==
    op.name = "get_assignments" =>
        /\ Len(out.entries) = (IF Len(backend) < 15 THEN Len(backend) ELSE 15)
        /\ \A i \in 1..Len(out.entries) :
              out.entries[i] =
                  [id |-> backend[i].id, name |-> backend[i].name,
                   due_at |-> backend[i].due_at,
                   points_possible |-> backend[i].points_possible,
                   submitted |-> (backend[i].submitted = <<TRUE>>)]

\* A course with 20 assignments has been rendered as 15 entries.
C15_Witness ==
    /\ op.name = "get_assignments"
    /\ Len(backend) = 20
    /\ Len(out.entries) = 15
    /\ out.entries[15].id = 15

(***************************************************************************)
(* C16.  On the tool path process_message returns exactly the text         *)
(* generate_response returned, and that text is the content of the         *)
(* assistant turn appended last when the cycle goes back to Idle.          *)
(***************************************************************************)
C16_ToolPathReturnsFinalText ==
    [][(pc = "AwaitingFinalModel" /\ pc' = "Idle") =>
          /\ reply' \in RespondResults
          /\ returned' = reply'
          /\ context' = Append(context, AssistantTurn(reply'))]_vars

\* A cycle with tool calls has returned the final text of the model.
C16_Witness ==
    /\ pc = "Idle"
    /\ calls.respond = 1
    /\ returned \in FinalTexts
    /\ returned = reply
    /\ context[Len(context)] = AssistantTurn(returned)

(***************************************************************************)
(* C17.  Catalog and dispatch table correspond: the names advertised to    *)
(* the gateway are exactly the names the if/elif chain has a branch for,   *)
(* no name is advertised twice, generate_with_tools is given that          *)
(* catalog, and no invocation of an advertised tool falls through the      *)
(* chain.                                                                  *)
(***************************************************************************)
C17_CatalogMatchesDispatch ==
    /\ {Catalog[i] : i \in DOMAIN Catalog} = DispatchTable
    /\ \A i, j \in DOMAIN Catalog : Catalog[i] = Catalog[j] => i = j
    /\ lastCall.op = "generate_with_tools" => lastCall.tools = Catalog
    /\ \A k \in DOMAIN outcomes :
          (\E i \in DOMAIN Catalog : Catalog[i] = tool_calls[k].name) =>
              outcomes[k] # "no_branch"

\* Two invocations of advertised tools have gone through their branches.
C17_Witness ==
    /\ pc = "DispatchingTools"
    /\ Len(outcomes) = 2
    /\ tool_calls[1].name = "get_courses"
    /\ tool_calls[2].name = "get_assignments"
    /\ \A k \in 1..2 : outcomes[k] = "ok"

(***************************************************************************)
(* C18.  reset clears the history only: the step that reads a reset line   *)
(* leaves the history empty, changes neither the stored system prompt nor  *)
(* anything else of the agent, and makes no gateway or adapter call; the   *)
(* message read next goes to generate_with_tools with the full catalog     *)
(* and a history of that single user turn.                                 *)
(***************************************************************************)
C18_ResetClearsHistoryOnly ==
    [][/\ (loopPc = "input" /\ line' \in ResetLines) =>
             /\ context' = <<>>
             /\ UNCHANGED <<system_prompt, loopPc, pc, active, msgCount, cycleVars,
                            callVars, returned>>
       /\ (loopPc = "input" /\ line \in ResetLines /\ pc' = "AwaitingModel") =>
             /\ lastCall'.op = "generate_with_tools"
             /\ lastCall'.messages = <<UserTurn(<<line'>>)>>
             /\ lastCall'.tools = Catalog
             /\ lastCall'.system_prompt = DEFAULT_SYSTEM_PROMPT
             /\ context' = <<UserTurn(<<line'>>)>>]_vars

\* The second message of a session is at the gateway after a reset.
C18_Witness ==
    /\ pc = "AwaitingModel"
    /\ msgCount = 2
    /\ before = 0
    /\ lastCall.messages = <<UserTurn(<<"Msg 2">>)>>

(***************************************************************************)
(* C19.  Console dispatch: a line that is exit or quit in any case ends    *)
(* the loop and nothing else; help in any case changes nothing; reset in   *)
(* any case empties the history and nothing else; every other line, and    *)
(* only such a line, starts exactly one process_message call whose user    *)
(* turn holds the line as typed.                                           *)
(***************************************************************************)
C19_ConsoleDispatch ==
    [][loopPc = "input" =>
          /\ (line' \in ExitLines <=> loopPc' = "exited")
          /\ line' \in ExitLines =>
                UNCHANGED <<context, system_prompt, pc, active, msgCount, callVars>>
          /\ line' \in HelpLines =>
                UNCHANGED <<context, system_prompt, loopPc, pc, active, msgCount, callVars>>
          /\ line' \in ResetLines =>
                /\ context' = <<>>
                /\ UNCHANGED <<system_prompt, loopPc, pc, active, msgCount, callVars>>
          /\ (line' \notin ExitLines \cup HelpLines \cup ResetLines <=>
                 pc' = "AwaitingModel")
          /\ pc' = "AwaitingModel" =>
                /\ loopPc' = "await"
                /\ active' = 1
                /\ msgCount' = msgCount + 1
                /\ calls' = [with_tools |-> 1, respond |-> 0]
                /\ context'[Len(context')] = UserTurn(<<line'>>)
                /\ lastCall'.messages = context']_vars

\* After one message, QUIT in capitals has ended the loop.
C19_Witness ==
    /\ loopPc = "exited"
    /\ line = "QUIT"
    /\ msgCount = 1
    /\ calls = [with_tools |-> 1, respond |-> 0]

(***************************************************************************)
(* C20.  Upcoming-assignments filter: for every assignment list and clock  *)
(* reading, get_upcoming_assignments returns, in the adapter's order,      *)
(* exactly the assignments that are not submitted and whose due_at is      *)
(* present and parseable (with or without an offset) with                  *)
(* now < due_at <= now + days; it never fails on a due_at.                 *)
(***************************************************************************)
C20_UpcomingFilter ==
    op.name = "get_upcoming_assignments" =>
        LET Upcoming(a) ==
                /\ a.due_at.kind \in {"aware", "naive"}
                /\ now < a.due_at.at
                /\ a.due_at.at <= now + op.days
                /\ a.submitted # <<TRUE>>
        IN  out = [kind |-> "ok", value |-> SelectSeq(backend, Upcoming)]

(***************************************************************************)
(* C21.  Late-assignments filter: for every assignment list and clock      *)
(* reading, get_late_assignments returns, in the adapter's order, exactly  *)
(* the assignments that are not submitted and whose due_at is present and  *)
(* parseable (with or without an offset) with due_at < now; an assignment  *)
(* due at now is not late, and the operation never fails on a due_at.      *)
(***************************************************************************)
C21_LateFilter ==
    op.name = "get_late_assignments" =>
        LET Late(a) ==
                /\ a.due_at.kind \in {"aware", "naive"}
                /\ a.due_at.at < now
                /\ a.submitted # <<TRUE>>
        IN  out = [kind |-> "ok", value |-> SelectSeq(backend, Late)]

(***************************************************************************)
(* C22.  Late and upcoming are disjoint: at one clock reading, no          *)
(* assignment that get_late_assignments returns is returned by             *)
(* get_upcoming_assignments for any horizon, and no assignment that        *)
(* get_upcoming_assignments returns is returned by get_late_assignments.   *)
(***************************************************************************)
C22_LateAndUpcomingDisjoint ==
    /\ (op.name = "get_late_assignments" /\ out.kind = "ok") =>
           \A i \in DOMAIN out.value, days \in HorizonDays :
               LET upcoming == GetUpcomingAssignments(<<out.value[i]>>, now, days)
               IN  upcoming.kind = "ok" => upcoming.value = <<>>
    /\ (op.name = "get_upcoming_assignments" /\ out.kind = "ok") =>
           \A i \in DOMAIN out.value :
               LET late == GetLateAssignments(<<out.value[i]>>, now)
               IN  late.kind = "ok" => late.value = <<>>

\* Two assignments of a course have been returned as late.
C22_Witness ==
    /\ op.name = "get_late_assignments"
    /\ out.kind = "ok"
    /\ Len(out.value) = 2

(***************************************************************************)
(* C23.  The upcoming filter is monotonic in the horizon: for the same     *)
(* list and clock reading, every assignment returned for a horizon of d    *)
(* days is returned for every longer horizon d'.                           *)
(***************************************************************************)
C23_UpcomingMonotonic ==
    (op.name = "get_upcoming_assignments" /\ out.kind = "ok") =>
        \A longer \in HorizonDays :
            longer > op.days =>
                LET wider == GetUpcomingAssignments(backend, now, longer)
                IN  /\ wider.kind = "ok"
                    /\ \A i \in DOMAIN out.value :
                          \E j \in DOMAIN wider.value : wider.value[j] = out.value[i]

\* A horizon of one day returned an assignment and a horizon of two days returns
\* more.
C23_Witness ==
    /\ op.name = "get_upcoming_assignments"
    /\ op.days = 1
    /\ out.kind = "ok"
    /\ out.value # <<>>
    /\ Len(GetUpcomingAssignments(backend, now, 2).value) > Len(out.value)

(***************************************************************************)
(* C29.  Shaping of the get_upcoming_assignments result: when the adapter  *)
(* returns m assignments, the branch renders exactly m entries, in the     *)
(* adapter's order, each holding id, name, due_at and points_possible of   *)
(* its assignment and nothing else; none is added, dropped or cut off.     *)
(***************************************************************************)
C29_UpcomingShapedInFull ==
    (op.name = "get_upcoming_assignments branch" /\ out.kind = "ok") =>
        /\ out.label = "Upcoming Assignments"
        /\ Len(out.entries) = Len(out.returned)
        /\ \A i \in 1..Len(out.returned) :
              out.entries[i] =
                  [id |-> out.returned[i].id, name |-> out.returned[i].name,
                   due_at |-> out.returned[i].due_at,
                   points_possible |-> out.returned[i].points_possible]

\* The adapter returned 16 assignments and 16 entries were rendered.
C29_Witness ==
    /\ op.name = "get_upcoming_assignments branch"
    /\ out.kind = "ok"
    /\ Len(out.returned) = 16
    /\ Len(out.entries) = 16
    /\ out.entries[16].id = 19

(***************************************************************************)
(* C26.  Find assignment by name: find_assignment_by_name returns the      *)
(* first assignment, in list order, whose name contains the pattern as a   *)
(* substring when both are compared without regard to case, and None       *)
(* exactly when no assignment name contains it.                            *)
(***************************************************************************)
C26_FindFirstMatch ==
    op.name = "find_assignment_by_name" =>
        LET wanted == ToLower(Chars(op.pattern))
            matching == {i \in DOMAIN backend :
                            IsSubstring(wanted, ToLower(Chars(backend[i].name)))}
        IN  IF matching = {}
            THEN out.value = <<>>
            ELSE out.value = <<backend[CHOOSE i \in matching : \A j \in matching : i <= j]>>

\* The pattern "Z 2" skipped "Quiz 1" and found "QUIZ 2" in the second place.
C26_Witness ==
    /\ op.name = "find_assignment_by_name"
    /\ op.pattern = "Z 2"
    /\ Len(backend) = 2
    /\ backend[1].name = "Quiz 1"
    /\ out.value = <<backend[2]>>

(***************************************************************************)
(* C24.  Ordering of the assignment summary: whenever                      *)
(* get_assignment_summary returns its two lists, late_assignments and      *)
(* upcoming_assignments are each in ascending order of due date, over the  *)
(* entries of all courses together.                                        *)
(***************************************************************************)
C24_SummarySorted ==
    (op.name = "get_assignment_summary" /\ out.kind = "ok" /\ courses # <<>>) =>
        LET Ascending(entries) ==
                \A i, j \in DOMAIN entries :
                    i < j => entries[i].due_date.at <= entries[j].due_date.at
        IN  /\ Ascending(out.value.late_assignments)
            /\ Ascending(out.value.upcoming_assignments)

\* The late assignment of the second course is due before that of the first and
\* comes first in the summary.
C24_Witness ==
    /\ op.name = "get_assignment_summary"
    /\ out.kind = "ok"
    /\ Len(courses) = 2
    /\ Len(out.value.late_assignments) = 2
    /\ out.value.late_assignments[1].course_id = 200
    /\ out.value.late_assignments[2].course_id = 100
    /\ out.value.late_assignments[1].due_date.at < out.value.late_assignments[2].due_date.at

(***************************************************************************)
(* C25.  Scope of the assignment summary: for every integer max_courses    *)
(* get_assignment_summary asks for the assignments of at most max_courses  *)
(* courses (none when max_courses is not positive), the first ones of the  *)
(* adapter's list, keeps as upcoming what is due within 7 days, and tags   *)
(* every entry with the id and name of the course it came from.            *)
(***************************************************************************)
C25_SummaryScope ==
    (op.name = "get_assignment_summary" /\ out.kind = "ok") =>
        LET limit == IF op.max_courses > 0 THEN op.max_courses ELSE 0
            Tagged(entries) ==
                \A i \in DOMAIN entries :
                    \E c \in DOMAIN courses :
                        /\ courses[c].id \in {out.queried[k] : k \in DOMAIN out.queried}
                        /\ entries[i].course_id = courses[c].id
                        /\ entries[i].course_name = courses[c].name
                        /\ \E a \in DOMAIN courses[c].assignments :
                              courses[c].assignments[a].id = entries[i].assignment_id
        IN  /\ Len(out.queried) <= limit
            /\ \A k \in DOMAIN out.queried : out.queried[k] = courses[k].id
            /\ courses # <<>> =>
                  /\ Tagged(out.value.late_assignments)
                  /\ Tagged(out.value.upcoming_assignments)
                  /\ \A i \in DOMAIN out.value.upcoming_assignments :
                        LET due == out.value.upcoming_assignments[i].due_date.at
                        IN  now < due /\ due <= now + 7

\* The exchanges the adapter counts as an error of the LMS: a response whose
\* status is not a success, or whose envelope does not say success.
RemoteFailures ==
    {x \in Exchanges : /\ x.kind = "response"
                       /\ \/ x.status \notin 200..299
                          \/ /\ x.body # MalformedBody
                             /\ ~Get(x.body, "success", FALSE)}

\* The exchanges that fail before an envelope is read: no connection, no
\* answer in time, or a success status over a body that is not JSON.
TransportFailed(x) ==
    \/ x.kind \in TransportFailures
    \/ x.kind = "response" /\ x.status \in 200..299 /\ x.body = MalformedBody

\* The kinds of error a caller sees for an error of the LMS.
RemoteErrorTypes ==
    {MakeRequest(m, x).type : m \in Methods, x \in RemoteFailures}

(***************************************************************************)
(* C27: a transport failure (connection refused, timeout, malformed body)  *)
(* reaches the caller as an error of a kind that no remote error has, so   *)
(* that the caller can tell the two apart.  The code raises a plain        *)
(* Exception for a refused connection as it does for a remote error: this  *)
(* formula is violated.                                                    *)
(***************************************************************************)
C27_TransportErrorDistinct ==
    (/\ op.name = "_make_request"
     /\ TransportFailed(op.exchange)
     /\ out.kind = "raise")
        => out.type \notin RemoteErrorTypes

(***************************************************************************)
(* C28 as stated: a GET over an envelope returns the envelope's data if    *)
(* and only if the status is a success status (2xx) and the success flag   *)
(* is true; otherwise it fails with an error carrying the status or the    *)
(* envelope's error message.  Violated: a 201 or 204 with a true flag      *)
(* fails.                                                                  *)
(***************************************************************************)
C28_DataIffSuccessStatusAndFlag ==
    (/\ op.name = "_make_request"
     /\ op.method = "GET"
     /\ op.exchange.kind = "response"
     /\ op.exchange.body # MalformedBody)
        => LET status == op.exchange.status
               body == op.exchange.body
               flag == "success" \in DOMAIN body /\ body["success"]
           IN
           IF status \in 200..299 /\ flag
           THEN /\ out.kind = "ok"
                /\ "data" \in DOMAIN body => out.data = body["data"]
           ELSE /\ out.kind = "raise"
                /\ \/ "status" \in DOMAIN out.message /\ out.message.status = status
                   \/ "error" \in DOMAIN body /\ out.message.detail = body["error"]
                   \/ "error" \notin DOMAIN body

(***************************************************************************)
(* C28, amended: a GET returns the envelope's data (an empty object when   *)
(* the envelope has none) if and only if the status is exactly 200 and the *)
(* success flag is true.  Under any other status it fails with an error    *)
(* carrying the status and the body; under 200 with a false or absent flag *)
(* it fails with an error carrying the envelope's error message, or        *)
(* "Unknown error" when the envelope has none.  It never returns data in   *)
(* these cases.                                                            *)
(***************************************************************************)
C28_DataIffStatus200AndFlag ==
    (/\ op.name = "_make_request"
     /\ op.method = "GET"
     /\ op.exchange.kind = "response")
        => LET status == op.exchange.status
               body == op.exchange.body
               flag == "success" \in DOMAIN body /\ body["success"]
           IN  /\ (status = 200 /\ body # MalformedBody /\ flag) =>
                      /\ out.kind = "ok"
                      /\ out.data = IF "data" \in DOMAIN body THEN body["data"] ELSE "{}"
               /\ (status = 200 /\ body # MalformedBody /\ ~flag) =>
                      /\ out.kind = "raise"
                      /\ out.type = "Exception"
                      /\ out.message.prefix = "Canvas API error: "
                      /\ out.message.detail =
                             IF "error" \in DOMAIN body THEN body["error"]
                             ELSE "Unknown error"
               /\ status # 200 =>
                      /\ out.kind = "raise"
                      /\ out.type = "Exception"
                      /\ out.message.prefix = "Canvas API error ("
                      /\ out.message.status = status
                      /\ out.message.detail = body

\* A GET answered with 201 and an envelope saying success has failed.
C28_Witness ==
    /\ op.name = "_make_request"
    /\ op.method = "GET"
    /\ op.exchange.kind = "response"
    /\ op.exchange.status = 201
    /\ op.exchange.body = ("success" :> TRUE) @@ ("data" :> "courses")
    /\ out.kind = "raise"
    /\ out.message.status = 201

(***************************************************************************)
(* C30 as stated: the process exits with 0 after exit or quit and after a  *)
(* keyboard interrupt; it exits with 1 when a required configuration value *)
(* is missing, with no agent constructed and no line read; and a missing   *)
(* configuration value is the only thing that makes it exit with a         *)
(* failure.  Violated: with both values set, the process exits with 1 when *)
(* the construction of the agent raises.                                   *)
(***************************************************************************)
C30_OnlyMissingConfigFails ==
    /\ loopPc \in {"exited", "interrupted"} => exit_code = 0
    /\ (loopPc = "fatal" /\ env # {"OPENAI_API_KEY", "CANVAS_ACCESS_TOKEN"}) =>
           /\ exit_code # 0
           /\ ~constructed
           /\ line = "" /\ msgCount = 0
    /\ exit_code \notin {NoExit, 0} => env # {"OPENAI_API_KEY", "CANVAS_ACCESS_TOKEN"}

(***************************************************************************)
(* C30, amended: the process exits with 0 when the session ends by exit or *)
(* quit or by a keyboard interrupt that the loop or the launcher catches;  *)
(* validation exits with 1 when the API key or the access token is         *)
(* missing, and then no agent is ever constructed and no line ever read.   *)
(* Missing configuration is not the only failure: the process also exits   *)
(* with 1 when the construction of the agent raises, with 2 on a bad       *)
(* command-line argument, and with 130 on a keyboard interrupt nothing     *)
(* catches.  These are all the ways it ends, and no failure inside the     *)
(* loop ends it.                                                           *)
(***************************************************************************)
C30_ExitCodes ==
    /\ [](/\ loopPc \in {"start", "validate", "construct", "input", "await"}
               <=> exit_code = NoExit
          /\ loopPc = "exited" => exit_code = 0 /\ constructed /\ line \in ExitLines
          /\ loopPc = "interrupted" => exit_code \in {0, 130} /\ constructed
          /\ loopPc = "fatal" =>
                 /\ exit_code \in {1, 2}
                 /\ ~constructed
                 /\ line = "" /\ msgCount = 0
          /\ env # {"OPENAI_API_KEY", "CANVAS_ACCESS_TOKEN"} =>
                 /\ loopPc \in {"start", "validate", "fatal"}
                 /\ ~constructed
                 /\ line = "" /\ msgCount = 0)
    /\ [][/\ (loopPc = "validate" /\ env # {"OPENAI_API_KEY", "CANVAS_ACCESS_TOKEN"}) =>
                 loopPc' = "fatal" /\ exit_code' = 1
          /\ (loopPc = "validate" /\ env = {"OPENAI_API_KEY", "CANVAS_ACCESS_TOKEN"}) =>
                 loopPc' = "construct"
          /\ exit_code' = 0 =>
                 \/ exit_code = 0
                 \/ loopPc = "input" /\ line' \in ExitLines /\ loopPc' = "exited"
                 \/ loopPc \in {"input", "await"} /\ loopPc' = "interrupted"
          /\ (exit_code = NoExit /\ exit_code' = 1) =>
                 \/ loopPc = "validate" /\ env # {"OPENAI_API_KEY", "CANVAS_ACCESS_TOKEN"}
                 \/ loopPc = "construct"
          /\ (loopPc \in {"input", "await"} /\ loopPc' \notin {"exited", "interrupted"}) =>
                 exit_code' = NoExit]_vars

\* With the API key and the access token set, the process has exited with 1: the
\* construction of the agent raised, before any line was read.
C30_Witness ==
    /\ loopPc = "fatal"
    /\ exit_code = 1
    /\ env = {"OPENAI_API_KEY", "CANVAS_ACCESS_TOKEN"}
    /\ ~constructed
    /\ line = "" /\ msgCount = 0

(***************************************************************************)
(* C31: every invocation of the gateway's response yields exactly one      *)
(* outcome: when the cycle has left the dispatch loop, the number of       *)
(* result strings plus the number of error strings equals the number of    *)
(* invocations.  The code has no else branch for a name outside its chain  *)
(* and records nothing for it: this formula is violated.                   *)
(***************************************************************************)
C31_OneOutcomePerInvocation ==
    (tool_calls # <<>> /\ pc \in {"AwaitingFinalModel", "Idle"})
        => Len(results) + Len(errors) = Len(tool_calls)

(***************************************************************************)
(* C32: when _handle_tool_calls raises before the dispatch loop is done,   *)
(* the cycle adds to the history the user turn followed by one assistant   *)
(* turn holding the fallback text "I tried to retrieve information from    *)
(* Canvas, but encountered an error: ..." and nothing else: no tool-result *)
(* and no error-report turn, whatever earlier invocations returned;        *)
(* generate_response is not called; the fallback text is returned.         *)
(***************************************************************************)
C32_HandlerFailureFallback ==
    [][(pc = "DispatchingTools" /\ pc' = "Idle") =>
          LET fallback == <<"I tried to retrieve information from Canvas, but encountered an error",
                            JsonError>>
          IN  /\ Len(context) = base
              /\ context[base] = UserTurn(<<Message(msgCount)>>)
              /\ context' = Append(context, AssistantTurn(fallback))
              /\ \A i \in (base + 1)..Len(context') : context'[i].role # "function"
              /\ returned' = fallback
              /\ calls' = [with_tools |-> 1, respond |-> 0]
              /\ lastCall'.op = "generate_with_tools"
              /\ loopPc' = "input"]_vars

\* The second invocation did not decode after the first had returned a result: the
\* history holds the user turn and the fallback turn, and the result is gone.
C32_Witness ==
    /\ pc = "Idle"
    /\ outcomes = <<"ok", "decode_error">>
    /\ results # <<>>
    /\ Len(context) = 2
    /\ context[2].role = "assistant"
    /\ returned = context[2].content
    /\ calls.respond = 0

(***************************************************************************)
(* C33: after any sequence of messages and resets, the history passed to   *)
(* generate_with_tools at the start of a cycle is not empty, holds at most *)
(* MAX_CONTEXT_LENGTH (10) turns, and ends with the user turn of the       *)
(* message just submitted.                                                 *)
(***************************************************************************)
C33_FirstCallHistory ==
    pc = "AwaitingModel" =>
        /\ lastCall.op = "generate_with_tools"
        /\ lastCall.messages # <<>>
        /\ Len(lastCall.messages) <= 10
        /\ lastCall.messages[Len(lastCall.messages)] =
               [role |-> "user", name |-> "-", content |-> <<line>>]
        /\ line = Message(msgCount)

\* A cycle started on a history that already held eleven turns: ten are passed.
C33_Witness ==
    /\ pc = "AwaitingModel"
    /\ before = 11
    /\ Len(lastCall.messages) = 10
    /\ lastCall.messages[10].content = <<line>>

(***************************************************************************)
(* C34: every accepted message completes its cycle.  Provided each gateway *)
(* and adapter call returns or raises, a process_message that has started  *)
(* terminates and leaves the loop idle at its prompt; it dispatches to the *)
(* adapter at most once per invocation of the one gateway response, and    *)
(* generate_with_tools is called once per cycle: no second round of tool   *)
(* calls is requested.                                                     *)
(***************************************************************************)
C34_CycleCompletes ==
    /\ (pc # "Idle") ~> (pc = "Idle" /\ loopPc = "input" /\ active = 0)
    /\ [](/\ Cardinality({i \in DOMAIN outcomes : outcomes[i] \in {"ok", "fail"}})
               <= Len(tool_calls)
          /\ Len(outcomes) <= Len(tool_calls)
          /\ Len(outcomes) = Len(sizes)
          /\ msgCount > 0 => calls.with_tools = 1
          /\ calls.respond <= 1
          /\ pc = "AwaitingFinalModel" => Len(outcomes) = Len(tool_calls))

\* A cycle with two invocations has dispatched both, made its final call and ended.
C34_Witness ==
    /\ pc = "Idle"
    /\ loopPc = "input"
    /\ msgCount = 1
    /\ Len(tool_calls) = 2
    /\ Len(outcomes) = 2
    /\ calls = [with_tools |-> 1, respond |-> 1]
    /\ returned # None

(***************************************************************************)
(* C35: the console loop ends only on an exit or quit command or on a      *)
(* keyboard interrupt.  Any other exception raised while a line is read or *)
(* a message processed, end of input included, is reported and the loop    *)
(* goes on to read the next line, and the conversation history stays as it *)
(* was when the exception occurred.                                        *)
(***************************************************************************)
C35_LoopEndsOnlyOnExitOrInterrupt ==
    [][/\ (loopPc \in {"input", "await"} /\ loopPc' \notin {"input", "await"}) =>
             \/ loopPc = "input" /\ loopPc' = "exited" /\ line' \in ExitLines
             \/ loopPc' = "interrupted"
       /\ reported' # reported =>
             /\ reported' # "none"
             /\ loopPc = "input" /\ loopPc' = "input"
             /\ context' = context
             /\ system_prompt' = system_prompt
             /\ exit_code' = -1]_vars

\* End of input was reported after a cycle had stored its two turns: the loop is at
\* its prompt with the history as it was.
C35_Witness ==
    /\ reported = "EOF when reading a line"
    /\ loopPc = "input"
    /\ msgCount = 1
    /\ Len(context) >= 2
    /\ exit_code = -1

====
